---- MODULE Spec2Model ----
(***************************************************************************)
(* reftool: embedding and listing ".reference" note sections in an ELF    *)
(* object (src/reftool.c).                                                 *)
(*                                                                         *)
(* The on-disk object is the state that survives between invocations:     *)
(* the file's bytes, its section header table, and the two ELF header     *)
(* fields the tool reads or writes (e_shoff, e_shstrndx).  Each invocation *)
(* of `add` or `list` is one action.  Bytes are integers 0..255, strings   *)
(* are sequences of non-zero bytes, file offsets are 0-based.              *)
(***************************************************************************)
EXTENDS Integers, Sequences, FiniteSets, TLC

VARIABLES
    file,        \* the bytes of the object file, file[i+1] is the byte at offset i
    shdrs,       \* section header table, sections 1..n (the null section 0 is skipped by elf_nextscn)
    e_shoff,     \* ELF header: offset of the section header table
    e_shstrndx,  \* ELF header: index of the section-name string table
    damaged,     \* a write pass failed midway: the file is in an unspecified state
    adds,        \* history: the <<mediatype, data>> of every successful add, in order
    last,        \* history: what the last invocation did and returned
    cm, cd,      \* codec harness: the two input strings
    rec,         \* codec harness: the encoded record
    dec,         \* codec harness: what the reader printed from the record
    cpc          \* codec harness: position

vars == <<file, shdrs, e_shoff, e_shstrndx, damaged, adds, last, cm, cd, rec, dec, cpc>>
elfvars == <<file, shdrs, e_shoff, e_shstrndx, damaged, adds, last>>
codecvars == <<cm, cd, rec, dec, cpc>>

----------------------------------------------------------------------------
(* Bounds *)
MaxLen == 4      \* longest media type / data string
MaxAdds == 2     \* successful adds per file
MaxFailAdds == 1 \* failing adds are tried on files with fewer successful adds than this

(* Program constants *)
NoteHdr == 12                     \* sizeof(struct note): three GElf_Word
SHT_PROGBITS == 1
SHT_STRTAB == 3
SHT_NOTE == 7
SHT_NOBITS == 8
SHF_ALLOC == 2
REFERENCE_SECTION_NAME == <<46, 114, 101, 102, 101, 114, 101, 110, 99, 101>>  \* ".reference"

----------------------------------------------------------------------------
(* Byte-buffer primitives *)

Zeros(n) == [i \in 1..n |-> 0]

\* memcpy(buf + off, src, Len(src))
Memcpy(buf, off, src) ==
    [i \in 1..Len(buf) |-> IF i > off /\ i <= off + Len(src) THEN src[i - off] ELSE buf[i]]

\* a native (little-endian) 32-bit word as stored in memory, and read back
LE32(w) == <<w % 256, (w \div 256) % 256, (w \div 65536) % 256, (w \div 16777216) % 256>>
RdLE32(buf, off) ==
    buf[off + 1] + 256 * buf[off + 2] + 65536 * buf[off + 3] + 16777216 * buf[off + 4]

\* a C string starting at 0-based position p of buf
Terminated(buf, p) == {i \in (p + 1)..Len(buf) : buf[i] = 0} # {}
CStr(buf, p) ==
    LET z == CHOOSE i \in (p + 1)..Len(buf) :
                 buf[i] = 0 /\ \A j \in (p + 1)..(i - 1) : buf[j] # 0
    IN  SubSeq(buf, p + 1, z - 1)
RestOf(buf, p) == SubSeq(buf, p + 1, Len(buf))

RECURSIVE Rep(_, _)
Rep(c, n) == IF n = 0 THEN <<>> ELSE <<c>> \o Rep(c, n - 1)

RECURSIVE StringsUpTo(_, _)
StringsUpTo(chars, n) ==
    IF n = 0 THEN {<<>>}
    ELSE LET S == StringsUpTo(chars, n - 1)
         IN  S \cup {s \o <<c>> : s \in {t \in S : Len(t) = n - 1}, c \in chars}

----------------------------------------------------------------------------
(* Note codec: add() lines 260-278, read_section() lines 120-125 *)

\* (variant: the outer "& 3" left out, so an aligned length gains four bytes)
Pad4Up(n) == n + (4 - (n % 4))

\* mtlen += (4 - (mtlen & 3)) & 3.  mtlen is a 32-bit GElf_Word; an argv string
\* is far shorter than 2^32 bytes, so the addition cannot wrap.
Pad4(n) == n + ((4 - (n % 4)) % 4)

\* the record buffer add() builds: calloc, namesz, descsz, then the two memcpy
Note(mediatype, data) ==
    LET mtlen   == Pad4(Len(mediatype))
        dlen    == Pad4(Len(data))
        bufsize == NoteHdr + mtlen + dlen
        b0      == Zeros(bufsize)
        b1      == Memcpy(b0, 0, LE32(mtlen))
        b2      == Memcpy(b1, 4, LE32(dlen))
        b3      == Memcpy(b2, NoteHdr + mtlen, data)
    IN  Memcpy(b3, NoteHdr, mediatype)

\* What a read that runs past the end of the data buffer can produce: the
\* bytes found there up to a zero, or a fault.
JunkByte == 63
Beyond == { [fault |-> FALSE, bytes |-> <<>>],
            [fault |-> FALSE, bytes |-> <<JunkByte>>],
            [fault |-> TRUE,  bytes |-> <<>>] }

\* printf's "%s" on buf + p
ReadStr(buf, p, b) ==
    IF Terminated(buf, p) THEN [s |-> CStr(buf, p), fault |-> FALSE]
    ELSE [s |-> RestOf(buf, p) \o b.bytes, fault |-> b.fault]

\* printf("%s (%s)\n", n->buf + n->namesz, n->buf): every outcome
PrintNote(buf) ==
    LET namesz == RdLE32(buf, 0)
        Out(b) == LET desc == ReadStr(buf, NoteHdr + namesz, b)
                      name == ReadStr(buf, NoteHdr, b)
                  IN  [desc |-> desc.s, name |-> name.s, fault |-> desc.fault \/ name.fault]
    IN  IF Terminated(buf, NoteHdr + namesz) /\ Terminated(buf, NoteHdr)
        THEN {Out([fault |-> FALSE, bytes |-> <<>>])}
        ELSE {Out(b) : b \in Beyond}

----------------------------------------------------------------------------
(* The container as libelf presents it *)

Shdr(name, type, flags, off, size) ==
    [sh_name |-> name, sh_type |-> type, sh_flags |-> flags, sh_offset |-> off,
     sh_size |-> size, sh_addralign |-> 1, sh_entsize |-> 0]

\* pwrite(buf) at offset off; the file grows (zero-filled) when needed
WriteAt(f, off, buf) ==
    LET n == IF Len(f) > off + Len(buf) THEN Len(f) ELSE off + Len(buf)
    IN  [i \in 1..n |-> IF i > off /\ i <= off + Len(buf) THEN buf[i - off]
                        ELSE IF i <= Len(f) THEN f[i] ELSE 0]

\* elf_getdata(scn, NULL) on a section read from the file: its raw bytes
SectionData(f, s) ==
    IF s.sh_type = SHT_NOBITS THEN <<>>
    ELSE [i \in 1..s.sh_size |-> IF s.sh_offset + i <= Len(f) THEN f[s.sh_offset + i] ELSE 0]

\* elf_strptr(elf, e_shstrndx, off): NULL unless off lies in the table and the
\* string is terminated inside it
StrPtrOk(tab, off) == off < Len(tab) /\ Terminated(tab, off)
StrPtr(tab, off) == CStr(tab, off)

IsRef(tab, s) == StrPtrOk(tab, s.sh_name) /\ StrPtr(tab, s.sh_name) = REFERENCE_SECTION_NAME

Strtab(f, hs, ndx) == SectionData(f, hs[ndx])

----------------------------------------------------------------------------
(* find_or_add_strtab_ref, lines 174-253.  hs, tab: the section headers and  *)
(* the string table's data buffer in memory; the result is the returned      *)
(* offset with the headers and the buffer after the call.                    *)

\* (variant: the scan for an existing reference section left out)
find_or_add_strtab_ref_noscan(hs, tab, ndx) ==
    LET offset    == Len(tab)
        new_size  == offset + Len(REFERENCE_SECTION_NAME) + 1
        new_table == Memcpy(Memcpy(Zeros(new_size), 0, tab),
                            offset, REFERENCE_SECTION_NAME \o <<0>>)
    IN  [ret  |-> offset,
         hs   |-> [hs EXCEPT ![ndx].sh_size = Len(new_table)],
         tab  |-> new_table,
         grew |-> TRUE]

\* (variant: the new size leaves no room for the terminator)
find_or_add_strtab_ref_noterm(hs, tab, ndx) ==
    LET found == {i \in 1..Len(hs) : IsRef(tab, hs[i])}
    IN  IF found # {}
        THEN LET first == CHOOSE i \in found : \A j \in found : i <= j
             IN  [ret |-> hs[first].sh_name, hs |-> hs, tab |-> tab, grew |-> FALSE]
        ELSE LET offset    == Len(tab)
                 new_size  == offset + Len(REFERENCE_SECTION_NAME)
                 new_table == Memcpy(Memcpy(Zeros(new_size), 0, tab),
                                     offset, REFERENCE_SECTION_NAME)
             IN  [ret  |-> offset,
                  hs   |-> [hs EXCEPT ![ndx].sh_size = Len(new_table)],
                  tab  |-> new_table,
                  grew |-> TRUE]

find_or_add_strtab_ref(hs, tab, ndx) ==
    LET found == {i \in 1..Len(hs) : IsRef(tab, hs[i])}
    IN  IF found # {}
        THEN LET first == CHOOSE i \in found : \A j \in found : i <= j
             IN  [ret |-> hs[first].sh_name, hs |-> hs, tab |-> tab, grew |-> FALSE]
        ELSE LET offset    == Len(tab)
                 new_size  == offset + Len(REFERENCE_SECTION_NAME) + 1
                 new_table == Memcpy(Memcpy(Zeros(new_size), 0, tab),
                                     offset, REFERENCE_SECTION_NAME \o <<0>>)
             IN  [ret  |-> offset,
                  hs   |-> [hs EXCEPT ![ndx].sh_size = Len(new_table)],
                  tab  |-> new_table,
                  grew |-> TRUE]

\* (variant: the scan does not skip no-bits sections)
RECURSIVE last_offset_from_all(_, _, _)
last_offset_from_all(hs, i, acc) ==
    IF i > Len(hs) THEN acc
    ELSE last_offset_from_all(hs, i + 1,
            IF acc < hs[i].sh_offset + hs[i].sh_size
            THEN hs[i].sh_offset + hs[i].sh_size ELSE acc)

\* the scan of lines 291-309
RECURSIVE last_offset_from(_, _, _)
last_offset_from(hs, i, acc) ==
    IF i > Len(hs) THEN acc
    ELSE last_offset_from(hs, i + 1,
            IF hs[i].sh_type # SHT_NOBITS /\ acc < hs[i].sh_offset + hs[i].sh_size
            THEN hs[i].sh_offset + hs[i].sh_size ELSE acc)
last_offset(hs) == last_offset_from(hs, 1, 0)

\* the section header of lines 339-345
ref_shdr(sh_name, off, bufsize) ==
    [sh_name |-> sh_name, sh_type |-> SHT_NOTE, sh_flags |-> SHF_ALLOC, sh_offset |-> off,
     sh_size |-> bufsize, sh_addralign |-> 1, sh_entsize |-> 0]

\* (variant: the two elf_update passes in the other order)
AddStepsWriteFirst ==
    << "calloc", "elf_open", "find_or_add_strtab_ref", "scan", "elf_newscn",
       "elf_newdata", "gelf_getshdr", "gelf_update_shdr", "gelf_getehdr",
       "gelf_update_ehdr", "elf_update_WRITE", "elf_update_NULL" >>

\* the steps of add() that can fail, in program order
AddSteps == << "calloc", "elf_open", "find_or_add_strtab_ref", "scan", "elf_newscn",
               "elf_newdata", "gelf_getshdr", "gelf_update_shdr", "gelf_getehdr",
               "gelf_update_ehdr", "elf_update_NULL", "elf_update_WRITE" >>

\* The image add() has built in memory when it reaches elf_update.
AddImage(f, hs, ndx, mediatype, data) ==
    LET buf  == Note(mediatype, data)
        r    == find_or_add_strtab_ref(hs, Strtab(f, hs, ndx), ndx)
        off  == last_offset(r.hs)
    IN  [buf |-> buf, sh_name |-> r.ret, grew |-> r.grew, tab |-> r.tab,
         last_offset |-> off,
         hs |-> Append(r.hs, ref_shdr(r.ret, off, Len(buf))),
         e_shoff |-> off + Len(buf)]

\* elf_update(elf, ELF_C_WRITE) under ELF_F_LAYOUT: every data buffer held in
\* memory is written at the offset its section header states.
WriteData(f, hs, ndx, img) ==
    WriteAt(WriteAt(f, hs[ndx].sh_offset, img.tab), img.last_offset, img.buf)

NamesOk(f, hs, ndx) ==
    /\ ndx \in 1..Len(hs)
    /\ \A i \in 1..Len(hs) : StrPtrOk(Strtab(f, hs, ndx), hs[i].sh_name)

NoOp == [op |-> "none", ok |-> TRUE, ran |-> <<>>, failed |-> "", sh_name |-> 0,
         grew |-> FALSE, last_offset |-> 0, lines |-> <<>>, fault |-> FALSE]

----------------------------------------------------------------------------
(* add, lines 255-380 *)

\* argv strings given to add: the lengths at a 4-byte boundary and just below one
ArgLengths == {n \in 0..MaxLen : n % 4 = 0 \/ n % 4 = 3}
MediaTypes == {Rep(109, n) : n \in ArgLengths}
Datas == {Rep(100, n) : n \in ArgLengths}

Completed(k) == IF k = 0 THEN AddSteps ELSE SubSeq(AddSteps, 1, k - 1)
FailedStep(k) == IF k = 0 THEN "" ELSE AddSteps[k]
Wrote(k) == {i \in 1..Len(Completed(k)) : Completed(k)[i] = "elf_update_WRITE"} # {}

AddRecord(k, img) ==
    [op |-> "add", ok |-> (k = 0), ran |-> Completed(k), failed |-> FailedStep(k),
     sh_name |-> img.sh_name, grew |-> img.grew, last_offset |-> img.last_offset,
     lines |-> <<>>, fault |-> FALSE]

\* add() runs to the end and returns EXIT_SUCCESS
AddOk(mediatype, data) ==
    /\ ~damaged
    /\ Len(adds) < MaxAdds
    /\ NamesOk(file, shdrs, e_shstrndx)
    /\ LET img == AddImage(file, shdrs, e_shstrndx, mediatype, data)
       IN  /\ file' = (IF Wrote(0) THEN WriteData(file, shdrs, e_shstrndx, img) ELSE file)
           /\ shdrs' = (IF Wrote(0) THEN img.hs ELSE shdrs)
           /\ e_shoff' = (IF Wrote(0) THEN img.e_shoff ELSE e_shoff)
           /\ last' = AddRecord(0, img)
    /\ adds' = Append(adds, <<mediatype, data>>)
    /\ UNCHANGED <<e_shstrndx, damaged, codecvars>>

\* step k of add() fails: err()/errx() ends the process there.  A write pass
\* that fails may have written any prefix of what it writes (ELF header, string
\* table, record, section header table).
AddFail(k) ==
    /\ ~damaged
    /\ Len(adds) < MaxFailAdds
    /\ NamesOk(file, shdrs, e_shstrndx)
    /\ k \in 1..Len(AddSteps)
    /\ last' = [NoOp EXCEPT !.op = "add", !.ok = FALSE, !.ran = Completed(k),
                            !.failed = FailedStep(k)]
    /\ IF Wrote(k)
       THEN \E mediatype \in MediaTypes, data \in Datas :
            LET img == AddImage(file, shdrs, e_shstrndx, mediatype, data)
            IN  /\ file' = WriteData(file, shdrs, e_shstrndx, img)
                /\ shdrs' = img.hs
                /\ e_shoff' = img.e_shoff
                /\ damaged' = damaged
       ELSE IF FailedStep(k) = "elf_update_WRITE"
       THEN \E mediatype \in MediaTypes, data \in Datas, w \in 0..3 :
            LET img == AddImage(file, shdrs, e_shstrndx, mediatype, data)
            IN  /\ e_shoff' = (IF w >= 1 THEN img.e_shoff ELSE e_shoff)
                /\ file' = (IF w >= 3 THEN WriteData(file, shdrs, e_shstrndx, img)
                            ELSE IF w >= 2
                            THEN WriteAt(file, shdrs[e_shstrndx].sh_offset, img.tab)
                            ELSE file)
                /\ shdrs' = shdrs
                /\ damaged' = TRUE
       ELSE UNCHANGED <<file, shdrs, e_shoff, damaged>>
    /\ UNCHANGED <<e_shstrndx, adds, codecvars>>

----------------------------------------------------------------------------
(* list, lines 143-170, with read_section, lines 89-129 *)

Line(desc, name) == desc \o <<32, 40>> \o name \o <<41>>     \* "%s (%s)"

\* every output list() can produce from section i on: the lines printed and
\* whether the process faulted while printing
RECURSIVE read_sections(_, _, _, _)
read_sections(f, hs, tab, i) ==
    IF i > Len(hs) THEN {[lines |-> <<>>, fault |-> FALSE]}
    ELSE IF ~IsRef(tab, hs[i]) THEN read_sections(f, hs, tab, i + 1)
    ELSE IF hs[i].sh_size = 0 \/ hs[i].sh_type = SHT_NOBITS
         THEN read_sections(f, hs, tab, i + 1)
    ELSE UNION { IF o.fault THEN {[lines |-> <<>>, fault |-> TRUE]}
                 ELSE {[lines |-> <<Line(o.desc, o.name)>> \o r.lines, fault |-> r.fault]
                       : r \in read_sections(f, hs, tab, i + 1)}
                 : o \in PrintNote(SectionData(f, hs[i])) }

\* list() reads only; listing the same file again has the same outcomes, so the
\* model takes it once after each add.
List ==
    /\ ~damaged
    /\ last.op # "list"
    /\ NamesOk(file, shdrs, e_shstrndx)
    /\ \E o \in read_sections(file, shdrs, Strtab(file, shdrs, e_shstrndx), 1) :
         last' = [NoOp EXCEPT !.op = "list", !.lines = o.lines, !.fault = o.fault]
    /\ UNCHANGED <<file, shdrs, e_shoff, e_shstrndx, damaged, adds, codecvars>>

----------------------------------------------------------------------------
(* Objects the tool is run on.  Three section layouts: the string table as   *)
(* the last section (with a no-bits section before it), the string table     *)
(* directly followed by another section, and the string table followed by    *)
(* free space.                                                               *)

ElfMagic == <<127, 69, 76, 70>>
Text == <<144, 144, 195>>

LayoutLast ==
    [file  |-> ElfMagic \o Text \o <<0, 46, 116, 0, 46, 98, 0, 46, 115, 0>>,
     shdrs |-> << Shdr(1, SHT_PROGBITS, 6, 4, 3),
                  Shdr(4, SHT_NOBITS, 3, 7, 40),
                  Shdr(7, SHT_STRTAB, 0, 7, 10) >>,
     e_shoff |-> 17, e_shstrndx |-> 3]

LayoutMiddle ==
    [file  |-> ElfMagic \o Text \o <<0, 46, 116, 0, 46, 115, 0, 46, 121, 0>> \o <<1, 2, 3, 4>>,
     shdrs |-> << Shdr(1, SHT_PROGBITS, 6, 4, 3),
                  Shdr(4, SHT_STRTAB, 0, 7, 10),
                  Shdr(7, SHT_PROGBITS, 0, 17, 4) >>,
     e_shoff |-> 21, e_shstrndx |-> 2]

LayoutGap ==
    [file  |-> ElfMagic \o <<0, 46, 115, 0, 46, 116, 0>> \o Zeros(12) \o Text,
     shdrs |-> << Shdr(1, SHT_STRTAB, 0, 4, 7),
                  Shdr(4, SHT_PROGBITS, 6, 23, 3) >>,
     e_shoff |-> 26, e_shstrndx |-> 1]

Layouts == {LayoutLast, LayoutMiddle, LayoutGap}

NoPrint == [desc |-> <<>>, name |-> <<>>, fault |-> FALSE]

Init ==
    /\ \E L \in Layouts :
         /\ file = L.file
         /\ shdrs = L.shdrs
         /\ e_shoff = L.e_shoff
         /\ e_shstrndx = L.e_shstrndx
    /\ damaged = FALSE
    /\ adds = <<>>
    /\ last = NoOp
    /\ cm = <<>> /\ cd = <<>> /\ rec = <<>> /\ dec = NoPrint /\ cpc = "off"

Next ==
    \/ \E m \in MediaTypes, d \in Datas : AddOk(m, d)
    \/ \E k \in 1..Len(AddSteps) : AddFail(k)
    \/ List

Spec == Init /\ [][Next]_vars

----------------------------------------------------------------------------
(* The codec on its own: encode a pair of strings, print the record. *)

Chars == {97, 98}

InitCodec ==
    /\ file = LayoutLast.file
    /\ shdrs = LayoutLast.shdrs
    /\ e_shoff = LayoutLast.e_shoff
    /\ e_shstrndx = LayoutLast.e_shstrndx
    /\ damaged = FALSE
    /\ adds = <<>>
    /\ last = NoOp
    /\ cm \in StringsUpTo(Chars, MaxLen)
    /\ cd \in StringsUpTo(Chars, MaxLen)
    /\ rec = <<>>
    /\ dec = NoPrint
    /\ cpc = "input"

CodecEncode ==
    /\ cpc = "input"
    /\ rec' = Note(cm, cd)
    /\ cpc' = "encoded"
    /\ UNCHANGED <<cm, cd, dec, elfvars>>

CodecPrint ==
    /\ cpc = "encoded"
    /\ dec' \in PrintNote(rec)
    /\ cpc' = "printed"
    /\ UNCHANGED <<cm, cd, rec, elfvars>>

NextCodec == CodecEncode \/ CodecPrint

SpecCodec == InitCodec /\ [][NextCodec]_vars

----------------------------------------------------------------------------
(* Properties *)

RoundUp4(n) == ((n + 3) \div 4) * 4
Tab == Strtab(file, shdrs, e_shstrndx)
RefSecs == {i \in 1..Len(shdrs) : IsRef(Tab, shdrs[i])}
End(s) == s.sh_offset + s.sh_size
ByteBearing(s) == s.sh_type # SHT_NOBITS
Intersect(a, b) ==
    /\ a.sh_size > 0 /\ b.sh_size > 0
    /\ a.sh_offset < End(b) /\ b.sh_offset < End(a)
SetMax(S) == IF S = {} THEN 0 ELSE CHOOSE x \in S : \A y \in S : y <= x
SetMin(S) == CHOOSE x \in S : \A y \in S : x <= y
HasZero(buf, from, to) == {i \in (from + 1)..to : i <= Len(buf) /\ buf[i] = 0} # {}
AddDone == last.op = "add" /\ last.ok
Occurrences(tab, str) ==
    {o \in 0..(Len(tab) - Len(str)) : SubSeq(tab, o + 1, o + Len(str)) = str}

\* C1 Round trip: the name string the reader prints from the encoded record is
\* the media type and the description string it prints is the data, for every
\* pair of strings, lengths 0 and multiples of 4 included.
C1_RoundTrip ==
    cpc = "printed" => ~dec.fault /\ dec.name = cm /\ dec.desc = cd

\* C2 Non-overlap: the file ranges of the byte-bearing sections stay pairwise
\* disjoint after any sequence of successful adds, wherever the section-name
\* string table lies among the sections.
C2_NonOverlap ==
    \A i, j \in 1..Len(shdrs) :
        (i < j /\ ByteBearing(shdrs[i]) /\ ByteBearing(shdrs[j]))
            => ~Intersect(shdrs[i], shdrs[j])

\* C3 Append offset: after a successful add the new section starts at the
\* greatest offset+size over the other byte-bearing sections (string-table growth
\* included), meets none of them, and e_shoff is the new section's end.
C3_AppendOffset ==
    AddDone =>
        LET n      == Len(shdrs)
            new    == shdrs[n]
            others == {i \in 1..(n - 1) : ByteBearing(shdrs[i])}
        IN  /\ new.sh_offset = SetMax({End(shdrs[i]) : i \in others})
            /\ \A i \in others : ~Intersect(new, shdrs[i])
            /\ e_shoff = new.sh_offset + new.sh_size
            /\ new.sh_size >= NoteHdr

C3_Witness ==
    /\ AddDone
    /\ \E i \in 1..Len(shdrs) :
         shdrs[i].sh_type = SHT_NOBITS /\ End(shdrs[i]) > shdrs[Len(shdrs)].sh_offset

\* C4 Multiplicity and order: after k successful adds on a file without a prior
\* reference there are exactly k reference sections, they are the last k of the
\* section table in the order of the adds, and list prints exactly k lines,
\* line i being "<data> (<mediaType>)" of add i.
C4_Multiplicity ==
    ~damaged =>
        /\ RefSecs = {i \in 1..Len(shdrs) : i > Len(shdrs) - Len(adds)}
        /\ last.op = "list" =>
             /\ ~last.fault
             /\ last.lines = [i \in 1..Len(adds) |-> Line(adds[i][2], adds[i][1])]

\* C5 String table idempotence: with a reference section present FindOrAdd
\* returns that section's name offset and leaves the table alone, and does so
\* again when repeated; over the adds on one file the table grows on the first
\* add only, holds one entry for the reserved name, and every reference section
\* carries the same name offset.
C5_Idempotent ==
    ~damaged =>
        /\ RefSecs # {} =>
             LET r  == find_or_add_strtab_ref(shdrs, Tab, e_shstrndx)
                 rr == find_or_add_strtab_ref(r.hs, r.tab, e_shstrndx)
             IN  /\ r.ret = shdrs[SetMin(RefSecs)].sh_name
                 /\ r.tab = Tab /\ r.hs = shdrs /\ ~r.grew
                 /\ rr = r
        /\ Len(adds) >= 1 =>
             /\ Cardinality(Occurrences(Tab, REFERENCE_SECTION_NAME \o <<0>>)) = 1
             /\ \A i, j \in RefSecs : shdrs[i].sh_name = shdrs[j].sh_name
        /\ AddDone => (last.grew <=> Len(adds) = 1)

C5_Witness == AddDone /\ Len(adds) = 2 /\ ~last.grew /\ adds[1] = adds[2]

\* C6 Frame of add: a successful add leaves every pre-existing section other
\* than the string table with the same header fields and the same content bytes,
\* and changes the string table on first use only.
C6_Frame ==
    [][(last'.op = "add" /\ last'.ok /\ adds' # adds) =>
        /\ Len(shdrs') = Len(shdrs) + 1
        /\ \A i \in 1..Len(shdrs) :
             /\ i # e_shstrndx =>
                  /\ shdrs'[i] = shdrs[i]
                  /\ SectionData(file', shdrs'[i]) = SectionData(file, shdrs[i])
             /\ (i = e_shstrndx /\ ~last'.grew) =>
                  /\ shdrs'[i] = shdrs[i]
                  /\ SectionData(file', shdrs'[i]) = SectionData(file, shdrs[i])
             /\ (i = e_shstrndx /\ last'.grew) =>
                  shdrs'[i] = [shdrs[i] EXCEPT !.sh_size = shdrs'[i].sh_size]
    ]_vars

\* C7 Fail-fast: the write pass is attempted at most once and only after every
\* other step of add, the layout-only pass included, has succeeded; a failing
\* step is the last one run; a failure before the write pass leaves the file as
\* it was.
C7_FailFast ==
    [][(last'.op = "add" /\ last' # last) =>
        LET ran       == last'.ran
            attempted == IF last'.ok THEN ran ELSE Append(ran, last'.failed)
            writes    == {p \in 1..Len(attempted) : attempted[p] = "elf_update_WRITE"}
            before    == {"calloc", "elf_open", "find_or_add_strtab_ref", "scan",
                          "elf_newscn", "elf_newdata", "gelf_getshdr",
                          "gelf_update_shdr", "gelf_getehdr", "gelf_update_ehdr",
                          "elf_update_NULL"}
        IN  /\ Cardinality(writes) <= 1
            /\ \A p \in writes : \A s \in before : \E q \in 1..(p - 1) : ran[q] = s
            /\ last'.ok => writes # {}
            /\ (~last'.ok /\ writes = {}) =>
                 /\ file' = file /\ shdrs' = shdrs /\ e_shoff' = e_shoff
                 /\ ~damaged'
            /\ ~last'.ok => adds' = adds
    ]_vars

C7_Witness == last.op = "add" /\ ~last.ok /\ last.failed = "elf_update_NULL"

\* C8 Padding: the record is 12 + round_up(len m, 4) + round_up(len d, 4) bytes
\* long, namesz and descsz are the two rounded lengths, m starts at body offset
\* 0 and d at body offset namesz, and the bytes after each string up to the end
\* of its field are zero.
C8_Padding ==
    cpc # "input" =>
        LET lm     == Len(cm)
            ld     == Len(cd)
            namesz == RdLE32(rec, 0)
            descsz == RdLE32(rec, 4)
        IN  /\ Len(rec) = NoteHdr + RoundUp4(lm) + RoundUp4(ld)
            /\ namesz = RoundUp4(lm)
            /\ descsz = RoundUp4(ld)
            /\ SubSeq(rec, NoteHdr + 1, NoteHdr + lm) = cm
            /\ SubSeq(rec, NoteHdr + namesz + 1, NoteHdr + namesz + ld) = cd
            /\ \A i \in (NoteHdr + lm + 1)..(NoteHdr + namesz) : rec[i] = 0
            /\ \A i \in (NoteHdr + namesz + ld + 1)..(NoteHdr + namesz + descsz) : rec[i] = 0

C8_Witness == cpc = "encoded" /\ Len(cm) = 4 /\ Len(cd) = 1 /\ Len(rec) = 20

\* C9 Note record invariant: namesz and descsz are multiples of 4 and each
\* field holds a zero byte, so each string ends inside its own field.
C9_NoteInvariant ==
    cpc # "input" =>
        LET namesz == RdLE32(rec, 0)
            descsz == RdLE32(rec, 4)
        IN  /\ namesz % 4 = 0
            /\ descsz % 4 = 0
            /\ HasZero(rec, NoteHdr, NoteHdr + namesz)
            /\ HasZero(rec, NoteHdr + namesz, NoteHdr + namesz + descsz)

\* C10 Append-only string table: without a reference section FindOrAdd returns
\* the old size, the data size and sh_size become old size + len(name) + 1, the
\* old bytes stay and the name with its terminator follows them; over any step
\* the table never shrinks and its old bytes never change.
C10_AppendOnly ==
    [][/\ RefSecs = {} =>
            LET r == find_or_add_strtab_ref(shdrs, Tab, e_shstrndx)
                n == Len(Tab)
            IN  /\ r.ret = n
                /\ Len(r.tab) = n + Len(REFERENCE_SECTION_NAME) + 1
                /\ r.hs[e_shstrndx].sh_size = n + Len(REFERENCE_SECTION_NAME) + 1
                /\ SubSeq(r.tab, 1, n) = Tab
                /\ SubSeq(r.tab, n + 1, Len(r.tab)) = REFERENCE_SECTION_NAME \o <<0>>
       /\ Len(Tab') >= Len(Tab)
       /\ SubSeq(Tab', 1, Len(Tab)) = Tab
       /\ (last'.op = "add" /\ last'.ok /\ last'.grew /\ adds' # adds) =>
            /\ last'.sh_name = Len(Tab)
            /\ Tab' = Tab \o REFERENCE_SECTION_NAME \o <<0>>
       /\ (last'.op = "add" /\ last'.ok /\ ~last'.grew /\ adds' # adds) => Tab' = Tab
    ]_vars

C10_Witness == AddDone /\ last.grew /\ e_shstrndx = 2 /\ last.sh_name = 10

====
